---- MODULE Spec2Model ----
(***************************************************************************)
(* Model of node_validator::validator_pool                                 *)
(* (contract/node-validator/sources/validator_pool.move) and of the state  *)
(* kept by the useValidatorPool hook of the front end (unnamed/part_003).  *)
(*                                                                         *)
(* State: the ValidatorPool, OperatorCap and Contributor objects that      *)
(* exist, the reward coins transferred so far for each Contributor record, *)
(* plus the effects of the last transaction (its abort code, the coin it   *)
(* returned and the events it emitted).  One action per entry              *)
(* function; each action runs the public function it wraps and commits     *)
(* the result only when the function did not abort.  The public functions  *)
(* are operators that return the objects as they stand at the point where  *)
(* the function returned or aborted.  Arguments are any objects that       *)
(* exist and any sender: object custody is the host's concern.             *)
(* The u64 operations are checked as Move checks them: a subtraction that  *)
(* would go below zero and an addition or multiplication that would leave  *)
(* the word abort the transaction, and balance::split aborts when the      *)
(* balance holds less than asked.  The word of the model is MAX_WORD wide  *)
(* (the widest the model checker's integers allow) where the contract's    *)
(* is 2^64 - 1 wide; the overflow tests have the same form at any width.   *)
(*                                                                         *)
(* Specifications: Spec (two pools, small amounts, rejected arguments),    *)
(* SpecReward (one pool with an operator share, stakes of 7 and 1000),     *)
(* SpecCross (two pools with an operator share), SpecThird (two pools and  *)
(* a third Contributor record) and SpecWide (one pool, rewards near the    *)
(* end of the word).  All run the same entry functions.  SpecHook runs     *)
(* the operations of the hook and their callbacks, one call at a time;     *)
(* the outcome of each transaction is any of the outcomes the hook         *)
(* distinguishes.                                                          *)
(***************************************************************************)
EXTENDS Integers, Sequences, FiniteSets, TLC

\* ---------------------------------------------------------------- bounds
MaxPools == 2
MaxContributors == 2
MaxAmount == 2
MaxRequired == 2
MaxRewards == 2

\* the senders of transactions
Addresses == {"A", "B"}
\* the addresses that create pools (and so become operators)
Operators == {"A"}
\* the arguments given to create_pool: one accepted and one rejected of each
RequiredChoices == {0, MaxRequired}
PctChoices == {0, 101}

\* ------------------------------------------------------- program constants
COLLECTING == 0
READY == 1
ACTIVE == 2

E_UNAUTHORIZED == 1001
E_INVALID_STATE == 1002
E_INSUFFICIENT_STAKE == 1003
E_ZERO_AMOUNT == 1004
E_WITHDRAWAL_NOT_ALLOWED == 1007

PRECISION == 1000000

\* abort raised by a u64 subtraction that would go below zero
ARITHMETIC_ERROR == 4017
\* abort raised by balance::split when the balance holds less than asked
ENotEnough == 2
\* no abort
OK == 0

\* the largest value of an unsigned word of the model (u64 in the contract)
MAX_WORD == 2147483647

\* a + b would leave the word: the checked addition aborts
add_overflows(a, b) == a > MAX_WORD - b
\* a * b would leave the word: the checked multiplication aborts
mul_overflows(a, b) == b > 0 /\ a > MAX_WORD \div b

VARIABLES pools, caps, contributors, last, events, rewards, paid, state, calls,
          currentAccount

vars == <<pools, caps, contributors, last, events, rewards, paid, state, calls,
          currentAccount>>

PoolIds == 1..Len(pools)
CapIds == 1..Len(caps)
ContributorIds == 1..Len(contributors)
LiveContributors == {c \in ContributorIds : contributors[c].live}

\* The effects of a transaction: the function it ran, its abort code (OK when
\* it committed), the value of the coin it handed to the sender, and the pool
\* and the contributor record it created, changed or deleted (0: none; an
\* aborted transaction touches no object).
NoCall == [op |-> "none", err |-> OK, payout |-> 0, pool |-> 0, contributor |-> 0]

Call(op, err, payout, pool, contributor) ==
    [op |-> op, err |-> err, payout |-> IF err = OK THEN payout ELSE 0,
     pool |-> IF err = OK THEN pool ELSE 0,
     contributor |-> IF err = OK THEN contributor ELSE 0]

\* Commit without the rollback: an aborted call keeps what it had written.
Commit_no_rollback(err, before, after) == after

\* A transaction that aborts leaves every object as it was before the call.
Commit(err, before, after) == IF err = OK THEN after ELSE before

\* ------------------------------------------------------- public functions
\* Each returns the abort code together with the objects, the returned coin
\* and the emitted events as they stand where the function stopped.
Result(err, pool, contributor, payout, evs) ==
    [err |-> err, pool |-> pool, contributor |-> contributor,
     payout |-> payout, events |-> evs]

NoContributor == [pool_id |-> 0, owner |-> "A", staked_amount |-> 0,
                  reward_debt |-> 0, live |-> FALSE]

\* create_pool with a pool that starts out Ready
create_pool_ready(pool_id, required_stake, operator_reward_pct, sender) ==
    IF ~(operator_reward_pct <= 100) THEN
        [err |-> E_ZERO_AMOUNT, events |-> <<>>]
    ELSE IF ~(required_stake > 0) THEN
        [err |-> E_ZERO_AMOUNT, events |-> <<>>]
    ELSE
        [err |-> OK,
         pool |-> [required_stake |-> required_stake,
                   total_stake |-> 0,
                   operator |-> sender,
                   operator_reward_pct |-> operator_reward_pct,
                   status |-> READY,
                   accumulated_reward |-> 0,
                   reward_per_stake |-> 0,
                   balance |-> 0],
         cap |-> [pool_id |-> pool_id],
         events |-> << [type |-> "PoolCreated", pool_id |-> pool_id,
                        operator |-> sender,
                        required_stake |-> required_stake,
                        operator_reward_pct |-> operator_reward_pct] >>]

create_pool(pool_id, required_stake, operator_reward_pct, sender) ==
    IF ~(operator_reward_pct <= 100) THEN
        [err |-> E_ZERO_AMOUNT, events |-> <<>>]
    ELSE IF ~(required_stake > 0) THEN
        [err |-> E_ZERO_AMOUNT, events |-> <<>>]
    ELSE
        [err |-> OK,
         pool |-> [required_stake |-> required_stake,
                   total_stake |-> 0,
                   operator |-> sender,
                   operator_reward_pct |-> operator_reward_pct,
                   status |-> COLLECTING,
                   accumulated_reward |-> 0,
                   reward_per_stake |-> 0,
                   balance |-> 0],
         cap |-> [pool_id |-> pool_id],
         events |-> << [type |-> "PoolCreated", pool_id |-> pool_id,
                        operator |-> sender,
                        required_stake |-> required_stake,
                        operator_reward_pct |-> operator_reward_pct] >>]

\* stake with the threshold test written as "greater than"
stake_strict_threshold(pool, pool_id, stake_amount, sender) ==
    IF ~(pool.status = COLLECTING \/ pool.status = READY) THEN
        Result(E_INVALID_STATE, pool, NoContributor, 0, <<>>)
    ELSE IF ~(stake_amount > 0) THEN
        Result(E_ZERO_AMOUNT, pool, NoContributor, 0, <<>>)
    ELSE IF add_overflows(pool.balance, stake_amount) THEN
        Result(ARITHMETIC_ERROR, pool, NoContributor, 0, <<>>)
    ELSE IF add_overflows(pool.total_stake, stake_amount) THEN
        Result(ARITHMETIC_ERROR, [pool EXCEPT !.balance = @ + stake_amount],
               NoContributor, 0, <<>>)
    ELSE IF mul_overflows(pool.reward_per_stake, stake_amount) THEN
        Result(ARITHMETIC_ERROR, [pool EXCEPT !.balance = @ + stake_amount,
                                              !.total_stake = @ + stake_amount],
               NoContributor, 0, <<>>)
    ELSE
        LET p1 == [pool EXCEPT !.balance = @ + stake_amount]
            p2 == [p1 EXCEPT !.total_stake = @ + stake_amount]
            p3 == IF p2.total_stake > p2.required_stake /\ p2.status = COLLECTING
                  THEN [p2 EXCEPT !.status = READY]
                  ELSE p2
            contributor == [pool_id |-> pool_id,
                            owner |-> sender,
                            staked_amount |-> stake_amount,
                            reward_debt |-> (p3.reward_per_stake * stake_amount) \div PRECISION,
                            live |-> TRUE]
        IN  Result(OK, p3, contributor, 0,
                   << [type |-> "StakeDeposited", pool_id |-> pool_id,
                       contributor |-> sender, amount |-> stake_amount,
                       new_total_stake |-> p3.total_stake,
                       pool_status |-> p3.status] >>)

\* stake with the amount assertion ahead of the status assertion
stake_amount_first(pool, pool_id, stake_amount, sender) ==
    IF ~(stake_amount > 0) THEN
        Result(E_ZERO_AMOUNT, pool, NoContributor, 0, <<>>)
    ELSE IF ~(pool.status = COLLECTING \/ pool.status = READY) THEN
        Result(E_INVALID_STATE, pool, NoContributor, 0, <<>>)
    ELSE IF add_overflows(pool.balance, stake_amount) THEN
        Result(ARITHMETIC_ERROR, pool, NoContributor, 0, <<>>)
    ELSE IF add_overflows(pool.total_stake, stake_amount) THEN
        Result(ARITHMETIC_ERROR, [pool EXCEPT !.balance = @ + stake_amount],
               NoContributor, 0, <<>>)
    ELSE IF mul_overflows(pool.reward_per_stake, stake_amount) THEN
        Result(ARITHMETIC_ERROR, [pool EXCEPT !.balance = @ + stake_amount,
                                              !.total_stake = @ + stake_amount],
               NoContributor, 0, <<>>)
    ELSE
        LET p1 == [pool EXCEPT !.balance = @ + stake_amount]
            p2 == [p1 EXCEPT !.total_stake = @ + stake_amount]
            p3 == IF p2.total_stake >= p2.required_stake /\ p2.status = COLLECTING
                  THEN [p2 EXCEPT !.status = READY]
                  ELSE p2
            contributor == [pool_id |-> pool_id,
                            owner |-> sender,
                            staked_amount |-> stake_amount,
                            reward_debt |-> (p3.reward_per_stake * stake_amount) \div PRECISION,
                            live |-> TRUE]
        IN  Result(OK, p3, contributor, 0,
                   << [type |-> "StakeDeposited", pool_id |-> pool_id,
                       contributor |-> sender, amount |-> stake_amount,
                       new_total_stake |-> p3.total_stake,
                       pool_status |-> p3.status] >>)

\* stake that books the whole deposit as reward_debt
stake_debt_is_stake(pool, pool_id, stake_amount, sender) ==
    IF ~(pool.status = COLLECTING \/ pool.status = READY) THEN
        Result(E_INVALID_STATE, pool, NoContributor, 0, <<>>)
    ELSE IF ~(stake_amount > 0) THEN
        Result(E_ZERO_AMOUNT, pool, NoContributor, 0, <<>>)
    ELSE IF add_overflows(pool.balance, stake_amount) THEN
        Result(ARITHMETIC_ERROR, pool, NoContributor, 0, <<>>)
    ELSE IF add_overflows(pool.total_stake, stake_amount) THEN
        Result(ARITHMETIC_ERROR, [pool EXCEPT !.balance = @ + stake_amount],
               NoContributor, 0, <<>>)
    ELSE IF mul_overflows(pool.reward_per_stake, stake_amount) THEN
        Result(ARITHMETIC_ERROR, [pool EXCEPT !.balance = @ + stake_amount,
                                              !.total_stake = @ + stake_amount],
               NoContributor, 0, <<>>)
    ELSE
        LET p1 == [pool EXCEPT !.balance = @ + stake_amount]
            p2 == [p1 EXCEPT !.total_stake = @ + stake_amount]
            p3 == IF p2.total_stake >= p2.required_stake /\ p2.status = COLLECTING
                  THEN [p2 EXCEPT !.status = READY]
                  ELSE p2
            contributor == [pool_id |-> pool_id,
                            owner |-> sender,
                            staked_amount |-> stake_amount,
                            reward_debt |-> stake_amount,
                            live |-> TRUE]
        IN  Result(OK, p3, contributor, 0,
                   << [type |-> "StakeDeposited", pool_id |-> pool_id,
                       contributor |-> sender, amount |-> stake_amount,
                       new_total_stake |-> p3.total_stake,
                       pool_status |-> p3.status] >>)

stake(pool, pool_id, stake_amount, sender) ==
    IF ~(pool.status = COLLECTING \/ pool.status = READY) THEN
        Result(E_INVALID_STATE, pool, NoContributor, 0, <<>>)
    ELSE IF ~(stake_amount > 0) THEN
        Result(E_ZERO_AMOUNT, pool, NoContributor, 0, <<>>)
    ELSE IF add_overflows(pool.balance, stake_amount) THEN
        Result(ARITHMETIC_ERROR, pool, NoContributor, 0, <<>>)
    ELSE IF add_overflows(pool.total_stake, stake_amount) THEN
        Result(ARITHMETIC_ERROR, [pool EXCEPT !.balance = @ + stake_amount],
               NoContributor, 0, <<>>)
    ELSE IF mul_overflows(pool.reward_per_stake, stake_amount) THEN
        Result(ARITHMETIC_ERROR, [pool EXCEPT !.balance = @ + stake_amount,
                                              !.total_stake = @ + stake_amount],
               NoContributor, 0, <<>>)
    ELSE
        LET p1 == [pool EXCEPT !.balance = @ + stake_amount]
            p2 == [p1 EXCEPT !.total_stake = @ + stake_amount]
            p3 == IF p2.total_stake >= p2.required_stake /\ p2.status = COLLECTING
                  THEN [p2 EXCEPT !.status = READY]
                  ELSE p2
            contributor == [pool_id |-> pool_id,
                            owner |-> sender,
                            staked_amount |-> stake_amount,
                            reward_debt |-> (p3.reward_per_stake * stake_amount) \div PRECISION,
                            live |-> TRUE]
        IN  Result(OK, p3, contributor, 0,
                   << [type |-> "StakeDeposited", pool_id |-> pool_id,
                       contributor |-> sender, amount |-> stake_amount,
                       new_total_stake |-> p3.total_stake,
                       pool_status |-> p3.status] >>)

\* activate_pool without the status assertion
activate_pool_any_status(pool, pool_id, operator_cap, sender) ==
    IF ~(sender = pool.operator) THEN
        Result(E_UNAUTHORIZED, pool, NoContributor, 0, <<>>)
    ELSE
        LET p1 == [pool EXCEPT !.status = ACTIVE]
        IN  Result(OK, p1, NoContributor, 0,
                   << [type |-> "PoolActivated", pool_id |-> pool_id,
                       operator |-> p1.operator,
                       total_stake |-> p1.total_stake] >>)

\* activate_pool without the sender assertion
activate_pool_any_sender(pool, pool_id, operator_cap, sender) ==
    IF ~(pool.status = READY) THEN
        Result(E_INVALID_STATE, pool, NoContributor, 0, <<>>)
    ELSE
        LET p1 == [pool EXCEPT !.status = ACTIVE]
        IN  Result(OK, p1, NoContributor, 0,
                   << [type |-> "PoolActivated", pool_id |-> pool_id,
                       operator |-> p1.operator,
                       total_stake |-> p1.total_stake] >>)

\* activate_pool that makes the sender the operator instead of testing it
activate_pool_sets_operator(pool, pool_id, operator_cap, sender) ==
    IF ~(pool.status = READY) THEN
        Result(E_INVALID_STATE, pool, NoContributor, 0, <<>>)
    ELSE
        LET p1 == [pool EXCEPT !.status = ACTIVE, !.operator = sender]
        IN  Result(OK, p1, NoContributor, 0,
                   << [type |-> "PoolActivated", pool_id |-> pool_id,
                       operator |-> p1.operator,
                       total_stake |-> p1.total_stake] >>)

activate_pool(pool, pool_id, operator_cap, sender) ==
    IF ~(pool.status = READY) THEN
        Result(E_INVALID_STATE, pool, NoContributor, 0, <<>>)
    ELSE IF ~(sender = pool.operator) THEN
        Result(E_UNAUTHORIZED, pool, NoContributor, 0, <<>>)
    ELSE
        LET p1 == [pool EXCEPT !.status = ACTIVE]
        IN  Result(OK, p1, NoContributor, 0,
                   << [type |-> "PoolActivated", pool_id |-> pool_id,
                       operator |-> p1.operator,
                       total_stake |-> p1.total_stake] >>)

\* record_reward that also accepts a Ready pool
record_reward_when_ready(pool, pool_id, reward_amount) ==
    IF ~(pool.status = ACTIVE \/ pool.status = READY) THEN
        Result(E_INVALID_STATE, pool, NoContributor, 0, <<>>)
    ELSE IF ~(reward_amount > 0) THEN
        Result(E_ZERO_AMOUNT, pool, NoContributor, 0, <<>>)
    ELSE IF add_overflows(pool.balance, reward_amount) THEN
        Result(ARITHMETIC_ERROR, pool, NoContributor, 0, <<>>)
    ELSE IF add_overflows(pool.accumulated_reward, reward_amount) THEN
        Result(ARITHMETIC_ERROR, [pool EXCEPT !.balance = @ + reward_amount],
               NoContributor, 0, <<>>)
    ELSE IF /\ pool.total_stake > 0
            /\ \/ mul_overflows(reward_amount, PRECISION)
               \/ add_overflows(pool.reward_per_stake,
                                (reward_amount * PRECISION) \div pool.total_stake)
         THEN
        Result(ARITHMETIC_ERROR, [pool EXCEPT !.balance = @ + reward_amount,
                                              !.accumulated_reward = @ + reward_amount],
               NoContributor, 0, <<>>)
    ELSE
        LET p1 == [pool EXCEPT !.balance = @ + reward_amount]
            p2 == [p1 EXCEPT !.accumulated_reward = @ + reward_amount]
            p3 == IF p2.total_stake > 0
                  THEN [p2 EXCEPT !.reward_per_stake =
                            @ + ((reward_amount * PRECISION) \div p2.total_stake)]
                  ELSE p2
        IN  Result(OK, p3, NoContributor, 0,
                   << [type |-> "RewardRecorded", pool_id |-> pool_id,
                       reward_amount |-> reward_amount,
                       new_accumulated_reward |-> p3.accumulated_reward] >>)

\* record_reward that spreads the reward over the balance instead of total_stake
record_reward_per_balance(pool, pool_id, reward_amount) ==
    IF ~(pool.status = ACTIVE) THEN
        Result(E_INVALID_STATE, pool, NoContributor, 0, <<>>)
    ELSE IF ~(reward_amount > 0) THEN
        Result(E_ZERO_AMOUNT, pool, NoContributor, 0, <<>>)
    ELSE IF add_overflows(pool.balance, reward_amount) THEN
        Result(ARITHMETIC_ERROR, pool, NoContributor, 0, <<>>)
    ELSE IF add_overflows(pool.accumulated_reward, reward_amount) THEN
        Result(ARITHMETIC_ERROR, [pool EXCEPT !.balance = @ + reward_amount],
               NoContributor, 0, <<>>)
    ELSE IF /\ pool.total_stake > 0
            /\ \/ mul_overflows(reward_amount, PRECISION)
               \/ add_overflows(pool.reward_per_stake,
                                (reward_amount * PRECISION) \div pool.total_stake)
         THEN
        Result(ARITHMETIC_ERROR, [pool EXCEPT !.balance = @ + reward_amount,
                                              !.accumulated_reward = @ + reward_amount],
               NoContributor, 0, <<>>)
    ELSE
        LET p1 == [pool EXCEPT !.balance = @ + reward_amount]
            p2 == [p1 EXCEPT !.accumulated_reward = @ + reward_amount]
            p3 == IF p2.total_stake > 0
                  THEN [p2 EXCEPT !.reward_per_stake =
                            @ + ((reward_amount * PRECISION) \div p2.balance)]
                  ELSE p2
        IN  Result(OK, p3, NoContributor, 0,
                   << [type |-> "RewardRecorded", pool_id |-> pool_id,
                       reward_amount |-> reward_amount,
                       new_accumulated_reward |-> p3.accumulated_reward] >>)

\* record_reward that overwrites reward_per_stake instead of adding to it
record_reward_replaces_rate(pool, pool_id, reward_amount) ==
    IF ~(pool.status = ACTIVE) THEN
        Result(E_INVALID_STATE, pool, NoContributor, 0, <<>>)
    ELSE IF ~(reward_amount > 0) THEN
        Result(E_ZERO_AMOUNT, pool, NoContributor, 0, <<>>)
    ELSE IF add_overflows(pool.balance, reward_amount) THEN
        Result(ARITHMETIC_ERROR, pool, NoContributor, 0, <<>>)
    ELSE IF add_overflows(pool.accumulated_reward, reward_amount) THEN
        Result(ARITHMETIC_ERROR, [pool EXCEPT !.balance = @ + reward_amount],
               NoContributor, 0, <<>>)
    ELSE IF /\ pool.total_stake > 0
            /\ \/ mul_overflows(reward_amount, PRECISION)
               \/ add_overflows(pool.reward_per_stake,
                                (reward_amount * PRECISION) \div pool.total_stake)
         THEN
        Result(ARITHMETIC_ERROR, [pool EXCEPT !.balance = @ + reward_amount,
                                              !.accumulated_reward = @ + reward_amount],
               NoContributor, 0, <<>>)
    ELSE
        LET p1 == [pool EXCEPT !.balance = @ + reward_amount]
            p2 == [p1 EXCEPT !.accumulated_reward = @ + reward_amount]
            p3 == IF p2.total_stake > 0
                  THEN [p2 EXCEPT !.reward_per_stake =
                            (reward_amount * PRECISION) \div p2.total_stake]
                  ELSE p2
        IN  Result(OK, p3, NoContributor, 0,
                   << [type |-> "RewardRecorded", pool_id |-> pool_id,
                       reward_amount |-> reward_amount,
                       new_accumulated_reward |-> p3.accumulated_reward] >>)

record_reward(pool, pool_id, reward_amount) ==
    IF ~(pool.status = ACTIVE) THEN
        Result(E_INVALID_STATE, pool, NoContributor, 0, <<>>)
    ELSE IF ~(reward_amount > 0) THEN
        Result(E_ZERO_AMOUNT, pool, NoContributor, 0, <<>>)
    ELSE IF add_overflows(pool.balance, reward_amount) THEN
        Result(ARITHMETIC_ERROR, pool, NoContributor, 0, <<>>)
    ELSE IF add_overflows(pool.accumulated_reward, reward_amount) THEN
        Result(ARITHMETIC_ERROR, [pool EXCEPT !.balance = @ + reward_amount],
               NoContributor, 0, <<>>)
    ELSE IF /\ pool.total_stake > 0
            /\ \/ mul_overflows(reward_amount, PRECISION)
               \/ add_overflows(pool.reward_per_stake,
                                (reward_amount * PRECISION) \div pool.total_stake)
         THEN
        Result(ARITHMETIC_ERROR, [pool EXCEPT !.balance = @ + reward_amount,
                                              !.accumulated_reward = @ + reward_amount],
               NoContributor, 0, <<>>)
    ELSE
        LET p1 == [pool EXCEPT !.balance = @ + reward_amount]
            p2 == [p1 EXCEPT !.accumulated_reward = @ + reward_amount]
            p3 == IF p2.total_stake > 0
                  THEN [p2 EXCEPT !.reward_per_stake =
                            @ + ((reward_amount * PRECISION) \div p2.total_stake)]
                  ELSE p2
        IN  Result(OK, p3, NoContributor, 0,
                   << [type |-> "RewardRecorded", pool_id |-> pool_id,
                       reward_amount |-> reward_amount,
                       new_accumulated_reward |-> p3.accumulated_reward] >>)

\* claim_reward that pays the operator's share of the pending reward
claim_reward_operator_share(pool, pool_id, contributor, sender) ==
    IF ~(pool.status = ACTIVE) THEN
        Result(E_INVALID_STATE, pool, contributor, 0, <<>>)
    ELSE IF ~(contributor.owner = sender) THEN
        Result(E_UNAUTHORIZED, pool, contributor, 0, <<>>)
    ELSE IF mul_overflows(contributor.staked_amount, pool.reward_per_stake) THEN
        Result(ARITHMETIC_ERROR, pool, contributor, 0, <<>>)
    ELSE
        LET accrued == (contributor.staked_amount * pool.reward_per_stake) \div PRECISION
        IN
        IF accrued < contributor.reward_debt THEN
            Result(ARITHMETIC_ERROR, pool, contributor, 0, <<>>)
        ELSE
            LET pending_reward == accrued - contributor.reward_debt IN
            IF pending_reward > 0 THEN
                LET user_reward == (pending_reward * pool.operator_reward_pct) \div 100
                    c1 == [contributor EXCEPT !.reward_debt =
                              (contributor.staked_amount * pool.reward_per_stake) \div PRECISION]
                IN
                IF pool.balance < user_reward THEN
                    Result(ENotEnough, pool, c1, 0, <<>>)
                ELSE
                    Result(OK, [pool EXCEPT !.balance = @ - user_reward], c1, user_reward,
                           << [type |-> "RewardClaimed", pool_id |-> pool_id,
                               claimer |-> c1.owner, reward_amount |-> user_reward,
                               is_operator |-> FALSE] >>)
            ELSE
                Result(OK, pool, contributor, 0, <<>>)

\* claim_reward that pays without writing reward_debt
claim_reward_keeps_debt(pool, pool_id, contributor, sender) ==
    IF ~(pool.status = ACTIVE) THEN
        Result(E_INVALID_STATE, pool, contributor, 0, <<>>)
    ELSE IF ~(contributor.owner = sender) THEN
        Result(E_UNAUTHORIZED, pool, contributor, 0, <<>>)
    ELSE IF mul_overflows(contributor.staked_amount, pool.reward_per_stake) THEN
        Result(ARITHMETIC_ERROR, pool, contributor, 0, <<>>)
    ELSE
        LET accrued == (contributor.staked_amount * pool.reward_per_stake) \div PRECISION
        IN
        IF accrued < contributor.reward_debt THEN
            Result(ARITHMETIC_ERROR, pool, contributor, 0, <<>>)
        ELSE
            LET pending_reward == accrued - contributor.reward_debt IN
            IF pending_reward > 0 THEN
                LET user_reward == (pending_reward * (100 - pool.operator_reward_pct)) \div 100
                    c1 == contributor
                IN
                IF pool.balance < user_reward THEN
                    Result(ENotEnough, pool, c1, 0, <<>>)
                ELSE
                    Result(OK, [pool EXCEPT !.balance = @ - user_reward], c1, user_reward,
                           << [type |-> "RewardClaimed", pool_id |-> pool_id,
                               claimer |-> c1.owner, reward_amount |-> user_reward,
                               is_operator |-> FALSE] >>)
            ELSE
                Result(OK, pool, contributor, 0, <<>>)

\* claim_reward without the owner assertion
claim_reward_any_sender(pool, pool_id, contributor, sender) ==
    IF ~(pool.status = ACTIVE) THEN
        Result(E_INVALID_STATE, pool, contributor, 0, <<>>)
    ELSE IF mul_overflows(contributor.staked_amount, pool.reward_per_stake) THEN
        Result(ARITHMETIC_ERROR, pool, contributor, 0, <<>>)
    ELSE
        LET accrued == (contributor.staked_amount * pool.reward_per_stake) \div PRECISION
        IN
        IF accrued < contributor.reward_debt THEN
            Result(ARITHMETIC_ERROR, pool, contributor, 0, <<>>)
        ELSE
            LET pending_reward == accrued - contributor.reward_debt IN
            IF pending_reward > 0 THEN
                LET user_reward == (pending_reward * (100 - pool.operator_reward_pct)) \div 100
                    c1 == [contributor EXCEPT !.reward_debt =
                              (contributor.staked_amount * pool.reward_per_stake) \div PRECISION]
                IN
                IF pool.balance < user_reward THEN
                    Result(ENotEnough, pool, c1, 0, <<>>)
                ELSE
                    Result(OK, [pool EXCEPT !.balance = @ - user_reward], c1, user_reward,
                           << [type |-> "RewardClaimed", pool_id |-> pool_id,
                               claimer |-> c1.owner, reward_amount |-> user_reward,
                               is_operator |-> FALSE] >>)
            ELSE
                Result(OK, pool, contributor, 0, <<>>)

\* claim_reward that also clears accumulated_reward when it pays
claim_reward_settles_accumulated(pool, pool_id, contributor, sender) ==
    IF ~(pool.status = ACTIVE) THEN
        Result(E_INVALID_STATE, pool, contributor, 0, <<>>)
    ELSE IF ~(contributor.owner = sender) THEN
        Result(E_UNAUTHORIZED, pool, contributor, 0, <<>>)
    ELSE IF mul_overflows(contributor.staked_amount, pool.reward_per_stake) THEN
        Result(ARITHMETIC_ERROR, pool, contributor, 0, <<>>)
    ELSE
        LET accrued == (contributor.staked_amount * pool.reward_per_stake) \div PRECISION
        IN
        IF accrued < contributor.reward_debt THEN
            Result(ARITHMETIC_ERROR, pool, contributor, 0, <<>>)
        ELSE
            LET pending_reward == accrued - contributor.reward_debt IN
            IF pending_reward > 0 THEN
                LET user_reward == (pending_reward * (100 - pool.operator_reward_pct)) \div 100
                    c1 == [contributor EXCEPT !.reward_debt =
                              (contributor.staked_amount * pool.reward_per_stake) \div PRECISION]
                IN
                IF pool.balance < user_reward THEN
                    Result(ENotEnough, pool, c1, 0, <<>>)
                ELSE
                    Result(OK, [pool EXCEPT !.balance = @ - user_reward,
                                            !.accumulated_reward = 0], c1, user_reward,
                           << [type |-> "RewardClaimed", pool_id |-> pool_id,
                               claimer |-> c1.owner, reward_amount |-> user_reward,
                               is_operator |-> FALSE] >>)
            ELSE
                Result(OK, pool, contributor, 0, <<>>)

\* claim_reward that emits no event when the payout is 0
claim_reward_silent_zero(pool, pool_id, contributor, sender) ==
    IF ~(pool.status = ACTIVE) THEN
        Result(E_INVALID_STATE, pool, contributor, 0, <<>>)
    ELSE IF ~(contributor.owner = sender) THEN
        Result(E_UNAUTHORIZED, pool, contributor, 0, <<>>)
    ELSE IF mul_overflows(contributor.staked_amount, pool.reward_per_stake) THEN
        Result(ARITHMETIC_ERROR, pool, contributor, 0, <<>>)
    ELSE
        LET accrued == (contributor.staked_amount * pool.reward_per_stake) \div PRECISION
        IN
        IF accrued < contributor.reward_debt THEN
            Result(ARITHMETIC_ERROR, pool, contributor, 0, <<>>)
        ELSE
            LET pending_reward == accrued - contributor.reward_debt IN
            IF pending_reward > 0 THEN
                LET user_reward == (pending_reward * (100 - pool.operator_reward_pct)) \div 100
                    c1 == [contributor EXCEPT !.reward_debt =
                              (contributor.staked_amount * pool.reward_per_stake) \div PRECISION]
                IN
                IF pool.balance < user_reward THEN
                    Result(ENotEnough, pool, c1, 0, <<>>)
                ELSE
                    Result(OK, [pool EXCEPT !.balance = @ - user_reward], c1, user_reward,
                           IF user_reward > 0
                           THEN << [type |-> "RewardClaimed", pool_id |-> pool_id,
                                    claimer |-> c1.owner, reward_amount |-> user_reward,
                                    is_operator |-> FALSE] >>
                           ELSE <<>>)
            ELSE
                Result(OK, pool, contributor, 0, <<>>)

claim_reward(pool, pool_id, contributor, sender) ==
    IF ~(pool.status = ACTIVE) THEN
        Result(E_INVALID_STATE, pool, contributor, 0, <<>>)
    ELSE IF ~(contributor.owner = sender) THEN
        Result(E_UNAUTHORIZED, pool, contributor, 0, <<>>)
    ELSE IF mul_overflows(contributor.staked_amount, pool.reward_per_stake) THEN
        Result(ARITHMETIC_ERROR, pool, contributor, 0, <<>>)
    ELSE
        LET accrued == (contributor.staked_amount * pool.reward_per_stake) \div PRECISION
        IN
        IF accrued < contributor.reward_debt THEN
            Result(ARITHMETIC_ERROR, pool, contributor, 0, <<>>)
        ELSE
            LET pending_reward == accrued - contributor.reward_debt IN
            IF pending_reward > 0 THEN
                LET user_reward == (pending_reward * (100 - pool.operator_reward_pct)) \div 100
                    c1 == [contributor EXCEPT !.reward_debt =
                              (contributor.staked_amount * pool.reward_per_stake) \div PRECISION]
                IN
                IF pool.balance < user_reward THEN
                    Result(ENotEnough, pool, c1, 0, <<>>)
                ELSE
                    Result(OK, [pool EXCEPT !.balance = @ - user_reward], c1, user_reward,
                           << [type |-> "RewardClaimed", pool_id |-> pool_id,
                               claimer |-> c1.owner, reward_amount |-> user_reward,
                               is_operator |-> FALSE] >>)
            ELSE
                Result(OK, pool, contributor, 0, <<>>)

claim_operator_reward(pool, pool_id, operator_cap, sender) ==
    IF ~(pool.status = ACTIVE) THEN
        Result(E_INVALID_STATE, pool, NoContributor, 0, <<>>)
    ELSE IF ~(sender = pool.operator) THEN
        Result(E_UNAUTHORIZED, pool, NoContributor, 0, <<>>)
    ELSE IF mul_overflows(pool.accumulated_reward, pool.operator_reward_pct) THEN
        Result(ARITHMETIC_ERROR, pool, NoContributor, 0, <<>>)
    ELSE
        LET operator_reward == (pool.accumulated_reward * pool.operator_reward_pct) \div 100 IN
        IF operator_reward > 0 THEN
            LET p1 == [pool EXCEPT !.accumulated_reward = 0] IN
            IF p1.balance < operator_reward THEN
                Result(ENotEnough, p1, NoContributor, 0, <<>>)
            ELSE
                Result(OK, [p1 EXCEPT !.balance = @ - operator_reward], NoContributor,
                       operator_reward,
                       << [type |-> "RewardClaimed", pool_id |-> pool_id,
                           claimer |-> p1.operator, reward_amount |-> operator_reward,
                           is_operator |-> TRUE] >>)
        ELSE
            Result(OK, pool, NoContributor, 0, <<>>)

\* withdraw_stake with the owner assertion ahead of the status assertion
withdraw_stake_owner_first(pool, pool_id, contributor, amount, sender) ==
    IF ~(contributor.owner = sender) THEN
        Result(E_UNAUTHORIZED, pool, contributor, 0, <<>>)
    ELSE IF ~(pool.status = COLLECTING \/ pool.status = READY) THEN
        Result(E_WITHDRAWAL_NOT_ALLOWED, pool, contributor, 0, <<>>)
    ELSE IF ~(amount > 0) THEN
        Result(E_ZERO_AMOUNT, pool, contributor, 0, <<>>)
    ELSE IF ~(contributor.staked_amount >= amount) THEN
        Result(E_INSUFFICIENT_STAKE, pool, contributor, 0, <<>>)
    ELSE
        LET c1 == [contributor EXCEPT !.staked_amount = @ - amount] IN
        IF pool.total_stake < amount THEN
            Result(ARITHMETIC_ERROR, pool, c1, 0, <<>>)
        ELSE
            LET p1 == [pool EXCEPT !.total_stake = @ - amount]
                p2 == IF p1.total_stake < p1.required_stake /\ p1.status = READY
                      THEN [p1 EXCEPT !.status = COLLECTING]
                      ELSE p1
            IN
            IF p2.balance < amount THEN
                Result(ENotEnough, p2, c1, 0, <<>>)
            ELSE
                Result(OK, [p2 EXCEPT !.balance = @ - amount], c1, amount,
                       << [type |-> "StakeWithdrawn", pool_id |-> pool_id,
                           contributor |-> c1.owner, amount |-> amount,
                           new_total_stake |-> p2.total_stake] >>)

\* withdraw_stake with the threshold test written as "at most"
withdraw_stake_inclusive_threshold(pool, pool_id, contributor, amount, sender) ==
    IF ~(pool.status = COLLECTING \/ pool.status = READY) THEN
        Result(E_WITHDRAWAL_NOT_ALLOWED, pool, contributor, 0, <<>>)
    ELSE IF ~(contributor.owner = sender) THEN
        Result(E_UNAUTHORIZED, pool, contributor, 0, <<>>)
    ELSE IF ~(amount > 0) THEN
        Result(E_ZERO_AMOUNT, pool, contributor, 0, <<>>)
    ELSE IF ~(contributor.staked_amount >= amount) THEN
        Result(E_INSUFFICIENT_STAKE, pool, contributor, 0, <<>>)
    ELSE
        LET c1 == [contributor EXCEPT !.staked_amount = @ - amount] IN
        IF pool.total_stake < amount THEN
            Result(ARITHMETIC_ERROR, pool, c1, 0, <<>>)
        ELSE
            LET p1 == [pool EXCEPT !.total_stake = @ - amount]
                p2 == IF p1.total_stake <= p1.required_stake /\ p1.status = READY
                      THEN [p1 EXCEPT !.status = COLLECTING]
                      ELSE p1
            IN
            IF p2.balance < amount THEN
                Result(ENotEnough, p2, c1, 0, <<>>)
            ELSE
                Result(OK, [p2 EXCEPT !.balance = @ - amount], c1, amount,
                       << [type |-> "StakeWithdrawn", pool_id |-> pool_id,
                           contributor |-> c1.owner, amount |-> amount,
                           new_total_stake |-> p2.total_stake] >>)

\* withdraw_stake that recomputes reward_debt for the remaining stake
withdraw_stake_rescales_debt(pool, pool_id, contributor, amount, sender) ==
    IF ~(pool.status = COLLECTING \/ pool.status = READY) THEN
        Result(E_WITHDRAWAL_NOT_ALLOWED, pool, contributor, 0, <<>>)
    ELSE IF ~(contributor.owner = sender) THEN
        Result(E_UNAUTHORIZED, pool, contributor, 0, <<>>)
    ELSE IF ~(amount > 0) THEN
        Result(E_ZERO_AMOUNT, pool, contributor, 0, <<>>)
    ELSE IF ~(contributor.staked_amount >= amount) THEN
        Result(E_INSUFFICIENT_STAKE, pool, contributor, 0, <<>>)
    ELSE
        LET c1 == [contributor EXCEPT
                      !.staked_amount = @ - amount,
                      !.reward_debt = ((contributor.staked_amount - amount)
                                          * pool.reward_per_stake) \div PRECISION] IN
        IF pool.total_stake < amount THEN
            Result(ARITHMETIC_ERROR, pool, c1, 0, <<>>)
        ELSE
            LET p1 == [pool EXCEPT !.total_stake = @ - amount]
                p2 == IF p1.total_stake < p1.required_stake /\ p1.status = READY
                      THEN [p1 EXCEPT !.status = COLLECTING]
                      ELSE p1
            IN
            IF p2.balance < amount THEN
                Result(ENotEnough, p2, c1, 0, <<>>)
            ELSE
                Result(OK, [p2 EXCEPT !.balance = @ - amount], c1, amount,
                       << [type |-> "StakeWithdrawn", pool_id |-> pool_id,
                           contributor |-> c1.owner, amount |-> amount,
                           new_total_stake |-> p2.total_stake] >>)

withdraw_stake(pool, pool_id, contributor, amount, sender) ==
    IF ~(pool.status = COLLECTING \/ pool.status = READY) THEN
        Result(E_WITHDRAWAL_NOT_ALLOWED, pool, contributor, 0, <<>>)
    ELSE IF ~(contributor.owner = sender) THEN
        Result(E_UNAUTHORIZED, pool, contributor, 0, <<>>)
    ELSE IF ~(amount > 0) THEN
        Result(E_ZERO_AMOUNT, pool, contributor, 0, <<>>)
    ELSE IF ~(contributor.staked_amount >= amount) THEN
        Result(E_INSUFFICIENT_STAKE, pool, contributor, 0, <<>>)
    ELSE
        LET c1 == [contributor EXCEPT !.staked_amount = @ - amount] IN
        IF pool.total_stake < amount THEN
            Result(ARITHMETIC_ERROR, pool, c1, 0, <<>>)
        ELSE
            LET p1 == [pool EXCEPT !.total_stake = @ - amount]
                p2 == IF p1.total_stake < p1.required_stake /\ p1.status = READY
                      THEN [p1 EXCEPT !.status = COLLECTING]
                      ELSE p1
            IN
            IF p2.balance < amount THEN
                Result(ENotEnough, p2, c1, 0, <<>>)
            ELSE
                Result(OK, [p2 EXCEPT !.balance = @ - amount], c1, amount,
                       << [type |-> "StakeWithdrawn", pool_id |-> pool_id,
                           contributor |-> c1.owner, amount |-> amount,
                           new_total_stake |-> p2.total_stake] >>)

\* ------------------------------------------------- the useValidatorPool hook
\* The operations of the hook; each sets its in-progress flag while it runs.
HookOperations ==
    {"createPool", "stake", "activatePool", "recordReward", "claimReward",
     "claimOperatorReward", "withdrawStake"}

InProgressFlag(op) ==
    CASE op = "createPool" -> "isCreatingPool"
      [] op = "stake" -> "isStaking"
      [] op = "activatePool" -> "isActivating"
      [] op = "recordReward" -> "isRecordingReward"
      [] op = "claimReward" -> "isClaimingReward"
      [] op = "claimOperatorReward" -> "isClaimingReward"
      [] op = "withdrawStake" -> "isWithdrawingStake"

\* where a call of an operation waits: for the wallet to sign and execute the
\* transaction, then for waitForTransaction
Phases == {"signAndExecute", "waitForTransaction"}

\* the most calls of the hook's operations in flight at once
MaxCalls == 1

\* the hook state of useState, and of resetState (error: "null" or the error
\* caught, "err", "signError" or "waitError"; hash: "undefined" or "digest")
InitialState ==
    [isLoading |-> FALSE, isPending |-> FALSE, isConfirming |-> FALSE,
     isConfirmed |-> FALSE, error |-> "null", hash |-> "undefined",
     isCreatingPool |-> FALSE, isStaking |-> FALSE, isActivating |-> FALSE,
     isClaimingReward |-> FALSE, isWithdrawingStake |-> FALSE,
     isRecordingReward |-> FALSE]

\* setState(prev => ({ ...prev, ...updates }))
updateState(prev, updates) ==
    [f \in DOMAIN prev |-> IF f \in DOMAIN updates THEN updates[f] ELSE prev[f]]

\* ----------------------------------------------------------------- state
Init ==
    /\ pools = <<>>
    /\ caps = <<>>
    /\ contributors = <<>>
    /\ last = NoCall
    /\ events = <<>>
    /\ rewards = 0
    /\ paid = <<>>
    /\ state = InitialState
    /\ calls = [k \in HookOperations \X Phases |-> 0]
    /\ currentAccount = "null"

\* ------------------------------------------------------- entry functions
\* The state a transaction leaves behind: the objects of a committed call,
\* the objects as they were for an aborted one, and the call's effects.
Effects(ps, ks, cs, evs, call, n) ==
    [pools |-> ps, caps |-> ks, contributors |-> cs, events |-> evs,
     last |-> call, rewards |-> n]

\* The coins that claim_user_reward has transferred so far to the owner of
\* each Contributor record, by the pool they were taken from: paid[c][p] for
\* record c and pool p, in units of the coin.
Paid(t) ==
    LET base == IF Len(t.contributors) > Len(paid)
                THEN Append(paid, [q \in 1..MaxPools |-> 0])
                ELSE paid
    IN  IF t.last.op = "claim_reward" /\ t.last.err = OK
        THEN [base EXCEPT ![t.last.contributor][t.last.pool] = @ + t.last.payout]
        ELSE base

Apply(t) ==
    /\ UNCHANGED <<state, calls, currentAccount>>
    /\ paid' = Paid(t)
    /\ pools' = t.pools
    /\ caps' = t.caps
    /\ contributors' = t.contributors
    /\ events' = t.events
    /\ last' = t.last
    /\ rewards' = t.rewards

create_custom_validator_pool_tx(sender, required_stake, operator_reward_pct) ==
    LET pool_id == Len(pools) + 1
        r == create_pool(pool_id, required_stake, operator_reward_pct, sender)
    IN  Effects(IF r.err = OK THEN Append(pools, r.pool) ELSE pools,
                IF r.err = OK THEN Append(caps, r.cap) ELSE caps,
                contributors,
                Commit(r.err, <<>>, r.events),
                Call("create_pool", r.err, 0, pool_id, 0),
                rewards)

create_custom_validator_pool(sender, required_stake, operator_reward_pct) ==
    LET t == create_custom_validator_pool_tx(sender, required_stake, operator_reward_pct)
    IN  /\ t.last.err = OK => Len(pools) < MaxPools
        /\ Apply(t)

stake_to_pool_tx(sender, p, stake_amount) ==
    LET r == stake(pools[p], p, stake_amount, sender)
    IN  Effects(Commit(r.err, pools, [pools EXCEPT ![p] = r.pool]),
                caps,
                Commit(r.err, contributors, Append(contributors, r.contributor)),
                Commit(r.err, <<>>, r.events),
                Call("stake", r.err, 0, p, Len(contributors) + 1),
                rewards)

stake_to_pool(sender, p, stake_amount) ==
    /\ p \in PoolIds
    /\ LET t == stake_to_pool_tx(sender, p, stake_amount)
       IN  /\ t.last.err = OK => Len(contributors) < MaxContributors
           /\ Apply(t)

activate_validator_pool_tx(sender, p, k) ==
    LET r == activate_pool(pools[p], p, caps[k], sender)
    IN  Effects(Commit(r.err, pools, [pools EXCEPT ![p] = r.pool]),
                caps,
                contributors,
                Commit(r.err, <<>>, r.events),
                Call("activate_pool", r.err, 0, p, 0),
                rewards)

activate_validator_pool(sender, p, k) ==
    /\ p \in PoolIds
    /\ k \in CapIds
    /\ Apply(activate_validator_pool_tx(sender, p, k))

record_validator_reward_tx(p, reward_amount) ==
    LET r == record_reward(pools[p], p, reward_amount)
    IN  Effects(Commit(r.err, pools, [pools EXCEPT ![p] = r.pool]),
                caps,
                contributors,
                Commit(r.err, <<>>, r.events),
                Call("record_reward", r.err, 0, p, 0),
                Commit(r.err, rewards, rewards + 1))

record_validator_reward(p, reward_amount) ==
    /\ p \in PoolIds
    /\ LET t == record_validator_reward_tx(p, reward_amount)
       IN  /\ t.last.err = OK => rewards < MaxRewards
           /\ Apply(t)

claim_user_reward_tx(sender, p, c) ==
    LET r == claim_reward(pools[p], p, contributors[c], sender)
    IN  Effects(Commit(r.err, pools, [pools EXCEPT ![p] = r.pool]),
                caps,
                Commit(r.err, contributors, [contributors EXCEPT ![c] = r.contributor]),
                Commit(r.err, <<>>, r.events),
                Call("claim_reward", r.err, r.payout, p, c),
                rewards)

claim_user_reward(sender, p, c) ==
    /\ p \in PoolIds
    /\ c \in LiveContributors
    /\ Apply(claim_user_reward_tx(sender, p, c))

claim_operator_rewards_tx(sender, p, k) ==
    LET r == claim_operator_reward(pools[p], p, caps[k], sender)
    IN  Effects(Commit(r.err, pools, [pools EXCEPT ![p] = r.pool]),
                caps,
                contributors,
                Commit(r.err, <<>>, r.events),
                Call("claim_operator_reward", r.err, r.payout, p, 0),
                rewards)

claim_operator_rewards(sender, p, k) ==
    /\ p \in PoolIds
    /\ k \in CapIds
    /\ Apply(claim_operator_rewards_tx(sender, p, k))

withdraw_user_stake_tx(sender, p, c, amount) ==
    LET r == withdraw_stake(pools[p], p, contributors[c], amount, sender)
    IN  Effects(Commit(r.err, pools, [pools EXCEPT ![p] = r.pool]),
                caps,
                Commit(r.err, contributors, [contributors EXCEPT ![c] = r.contributor]),
                Commit(r.err, <<>>, r.events),
                Call("withdraw_stake", r.err, r.payout, p, c),
                rewards)

withdraw_user_stake(sender, p, c, amount) ==
    /\ p \in PoolIds
    /\ c \in LiveContributors
    /\ Apply(withdraw_user_stake_tx(sender, p, c, amount))

\* destroy_empty_contributor without the staked_amount assertion
destroy_any_contributor_tx(c) ==
    LET err == OK
    IN  Effects(pools,
                caps,
                Commit(err, contributors, [contributors EXCEPT ![c] = NoContributor]),
                <<>>,
                Call("destroy_empty_contributor", err, 0, 0, c),
                rewards)

destroy_empty_contributor_tx(c) ==
    LET err == IF contributors[c].staked_amount = 0 THEN OK ELSE E_INSUFFICIENT_STAKE
    IN  Effects(pools,
                caps,
                Commit(err, contributors, [contributors EXCEPT ![c] = NoContributor]),
                <<>>,
                Call("destroy_empty_contributor", err, 0, 0, c),
                rewards)

destroy_empty_contributor(c) ==
    /\ c \in LiveContributors
    /\ Apply(destroy_empty_contributor_tx(c))

Next ==
    \/ \E s \in Operators, q \in RequiredChoices, pct \in PctChoices :
          create_custom_validator_pool(s, q, pct)
    \/ \E s \in Addresses, p \in PoolIds, a \in 0..MaxAmount : stake_to_pool(s, p, a)
    \/ \E s \in Addresses, p \in PoolIds, k \in CapIds : activate_validator_pool(s, p, k)
    \/ \E p \in PoolIds, a \in 0..MaxAmount : record_validator_reward(p, a)
    \/ \E s \in Addresses, p \in PoolIds, c \in ContributorIds : claim_user_reward(s, p, c)
    \/ \E s \in Addresses, p \in PoolIds, k \in CapIds : claim_operator_rewards(s, p, k)
    \/ \E s \in Addresses, p \in PoolIds, c \in ContributorIds, a \in 0..MaxAmount :
          withdraw_user_stake(s, p, c, a)
    \/ \E c \in ContributorIds : destroy_empty_contributor(c)

Spec == Init /\ [][Next]_vars

\* ------------------------------------------------------------ properties
RECURSIVE SumStaked(_, _)
\* sum of staked_amount over the live Contributor records 1..n whose pool_id is p
SumStaked(p, n) ==
    IF n = 0 THEN 0
    ELSE SumStaked(p, n - 1) +
         (IF contributors[n].live /\ contributors[n].pool_id = p
          THEN contributors[n].staked_amount ELSE 0)

\* C1: in every reachable state each pool's total_stake equals the sum of
\* staked_amount over the live Contributor records whose pool_id is that pool.
C1_TotalStakeIsSum ==
    \A p \in PoolIds : pools[p].total_stake = SumStaked(p, Len(contributors))

\* C2: in every reachable state, a withdraw_stake or claim_reward call changes
\* the total_stake or the balance of the pool it is given only when the record
\* it is given belongs to that pool (contributor.pool_id is the pool).
C2_NoCrossPoolEffect ==
    \A s \in Addresses, p \in PoolIds, c \in LiveContributors, a \in 0..MaxAmount :
        LET w == withdraw_user_stake_tx(s, p, c, a)
            r == claim_user_reward_tx(s, p, c)
        IN  ( \/ w.pools[p].total_stake # pools[p].total_stake
              \/ w.pools[p].balance # pools[p].balance
              \/ r.pools[p].total_stake # pools[p].total_stake
              \/ r.pools[p].balance # pools[p].balance )
            => contributors[c].pool_id = p

\* C3: in every reachable state, once the status assertion has passed (Ready
\* for activate_pool, Active for claim_operator_reward), the call fails with
\* E_UNAUTHORIZED unless the capability's pool_id is the pool and the sender
\* is pool.operator.
C3_OperatorGateChecksBoth ==
    \A s \in Addresses, p \in PoolIds, k \in CapIds :
        ~(caps[k].pool_id = p /\ s = pools[p].operator) =>
            /\ pools[p].status = READY
                  => activate_validator_pool_tx(s, p, k).last.err = E_UNAUTHORIZED
            /\ pools[p].status = ACTIVE
                  => claim_operator_rewards_tx(s, p, k).last.err = E_UNAUTHORIZED

\* C4: every change of a pool's status is Collecting->Ready in a successful
\* stake, Ready->Collecting in a successful withdraw_stake or Ready->Active in
\* a successful activate_pool, each on the pool the call was given; an Active
\* pool stays Active.
C4_StatusEdges ==
    [][\A p \in PoolIds :
          /\ pools'[p].status # pools[p].status =>
               /\ last'.err = OK
               /\ last'.pool = p
               /\ \/ /\ pools[p].status = COLLECTING
                     /\ pools'[p].status = READY
                     /\ last'.op = "stake"
                  \/ /\ pools[p].status = READY
                     /\ pools'[p].status = COLLECTING
                     /\ last'.op = "withdraw_stake"
                  \/ /\ pools[p].status = READY
                     /\ pools'[p].status = ACTIVE
                     /\ last'.op = "activate_pool"
          /\ pools[p].status = ACTIVE => pools'[p].status = ACTIVE]_vars

\* all three edges have been taken: one pool is Active and a withdrawal has
\* just taken another one from Ready back to Collecting
C4_Witness ==
    /\ last.op = "withdraw_stake"
    /\ last.err = OK
    /\ pools[last.pool].status = COLLECTING
    /\ pools[last.pool].total_stake + last.payout >= pools[last.pool].required_stake
    /\ \E q \in PoolIds : pools[q].status = ACTIVE

\* C5: after a successful create_pool, stake, activate_pool or record_reward
\* the pool's balance is at least its total_stake.
C5_BalanceCoversStake ==
    (last.err = OK /\ last.op \in {"create_pool", "stake", "activate_pool", "record_reward"})
        => pools[last.pool].balance >= pools[last.pool].total_stake

\* C6: in every reachable state and for every sender and capability,
\* activate_pool succeeds exactly when the pool is Ready and the sender is
\* pool.operator; on success only the status changes, to Active; a pool that
\* is not Ready gives E_INVALID_STATE, a Ready pool and another sender give
\* E_UNAUTHORIZED, and a failed call leaves the status as it was.
C6_Activate ==
    \A s \in Addresses, p \in PoolIds, k \in CapIds :
        LET t == activate_validator_pool_tx(s, p, k) IN
        /\ (t.last.err = OK) <=> (pools[p].status = READY /\ s = pools[p].operator)
        /\ t.last.err = OK => t.pools = [pools EXCEPT ![p].status = ACTIVE]
        /\ pools[p].status # READY => t.last.err = E_INVALID_STATE
        /\ (pools[p].status = READY /\ s # pools[p].operator)
              => t.last.err = E_UNAUTHORIZED
        /\ t.last.err # OK => t.pools[p].status = pools[p].status

C6_Witness ==
    /\ last.op = "activate_pool"
    /\ last.err = OK
    /\ pools[last.pool].status = ACTIVE
    /\ pools[last.pool].total_stake >= pools[last.pool].required_stake
    /\ pools[last.pool].balance = pools[last.pool].total_stake

\* C7: in every reachable state, a successful stake of a into a Collecting
\* pool with total_stake T has a > 0, leaves the pool Ready exactly when
\* T + a >= required_stake and Collecting otherwise, makes total_stake T + a
\* and balance a larger, and creates one record with staked_amount a owned by
\* the sender.
C7_StakeThreshold ==
    \A s \in Addresses, p \in PoolIds, a \in 0..MaxAmount :
        LET t == stake_to_pool_tx(s, p, a) IN
        (t.last.err = OK /\ pools[p].status = COLLECTING) =>
            /\ a > 0
            /\ (t.pools[p].status = READY)
                  <=> (pools[p].total_stake + a >= pools[p].required_stake)
            /\ (t.pools[p].status = COLLECTING)
                  <=> (pools[p].total_stake + a < pools[p].required_stake)
            /\ t.pools[p].total_stake = pools[p].total_stake + a
            /\ t.pools[p].balance = pools[p].balance + a
            /\ Len(t.contributors) = Len(contributors) + 1
            /\ t.contributors[t.last.contributor].staked_amount = a
            /\ t.contributors[t.last.contributor].owner = s
            /\ t.contributors[t.last.contributor].live

\* a stake that was not the pool's first one has just made it Ready
C7_Witness ==
    /\ last.op = "stake"
    /\ last.err = OK
    /\ pools[last.pool].status = READY
    /\ contributors[last.contributor].staked_amount < pools[last.pool].required_stake
    /\ pools[last.pool].total_stake - contributors[last.contributor].staked_amount
          < pools[last.pool].required_stake

\* C8: in every reachable state, withdraw_stake on an Active pool fails with
\* E_WITHDRAWAL_NOT_ALLOWED for every sender, record and amount (0 and amounts
\* above staked_amount included), and changes no pool and no record.
C8_NoWithdrawWhenActive ==
    \A s \in Addresses, p \in PoolIds, c \in LiveContributors, a \in 0..MaxAmount + 1 :
        LET t == withdraw_user_stake_tx(s, p, c, a) IN
        pools[p].status = ACTIVE =>
            /\ t.last.err = E_WITHDRAWAL_NOT_ALLOWED
            /\ t.pools = pools
            /\ t.contributors = contributors
            /\ t.last.payout = 0

C8_Witness ==
    /\ last.op = "withdraw_stake"
    /\ last.err = E_WITHDRAWAL_NOT_ALLOWED
    /\ \E p \in PoolIds : pools[p].status = ACTIVE
    /\ \E c \in LiveContributors : contributors[c].staked_amount > 0

\* C9: in every reachable state, a successful withdraw_stake of a from a
\* Ready pool with total_stake T leaves it Collecting exactly when
\* T - a < required_stake and Ready otherwise; from a Collecting pool it
\* leaves it Collecting.
C9_WithdrawThreshold ==
    \A s \in Addresses, p \in PoolIds, c \in LiveContributors, a \in 0..MaxAmount :
        LET t == withdraw_user_stake_tx(s, p, c, a) IN
        t.last.err = OK =>
            /\ pools[p].status = READY =>
                 /\ (t.pools[p].status = COLLECTING)
                       <=> (pools[p].total_stake - a < pools[p].required_stake)
                 /\ (t.pools[p].status = READY)
                       <=> (pools[p].total_stake - a >= pools[p].required_stake)
            /\ pools[p].status = COLLECTING => t.pools[p].status = COLLECTING

\* a withdrawal has just taken a pool that met its threshold back to Collecting
C9_Witness ==
    /\ last.op = "withdraw_stake"
    /\ last.err = OK
    /\ pools[last.pool].status = COLLECTING
    /\ pools[last.pool].total_stake > 0
    /\ pools[last.pool].total_stake + last.payout >= pools[last.pool].required_stake

C11_CreateRejectsWithOwnKind ==
    \A s \in Addresses, q \in RequiredChoices, pct \in PctChoices :
        (q = 0 \/ pct > 100) =>
            LET t == create_custom_validator_pool_tx(s, q, pct) IN
            /\ t.last.err # OK
            /\ t.last.err # E_ZERO_AMOUNT
            /\ t.pools = pools
            /\ t.caps = caps
            /\ t.events = <<>>

\* C12: a create_pool(required_stake, operator_reward_pct) that succeeds for
\* caller c adds one pool with status Collecting, total_stake,
\* accumulated_reward, reward_per_stake and balance all 0, operator c and the
\* given required_stake and operator_reward_pct, and adds exactly one
\* OperatorCap, whose pool_id is the new pool; it fails for no accepted input.
C12_CreateYieldsFreshPool ==
    \A c \in Addresses, q \in RequiredChoices, pct \in PctChoices :
        (q > 0 /\ pct <= 100) =>
            LET t == create_custom_validator_pool_tx(c, q, pct)
                id == Len(pools) + 1
            IN  /\ t.last.err = OK
                /\ t.last.pool = id
                /\ t.pools = Append(pools,
                        [required_stake |-> q, total_stake |-> 0, operator |-> c,
                         operator_reward_pct |-> pct, status |-> COLLECTING,
                         accumulated_reward |-> 0, reward_per_stake |-> 0,
                         balance |-> 0])
                /\ t.caps = Append(caps, [pool_id |-> id])
                /\ Cardinality({k \in 1..Len(t.caps) : t.caps[k].pool_id = id}) = 1
                /\ t.contributors = contributors

\* a second pool has just been created while the first one already holds stake
C12_Witness ==
    /\ last.op = "create_pool"
    /\ last.err = OK
    /\ last.pool = 2
    /\ pools[1].total_stake > 0
    /\ pools[2].status = COLLECTING
    /\ pools[2].balance = 0
    /\ caps[Len(caps)].pool_id = 2

\* C13: record_reward on a pool that is Collecting or Ready aborts with
\* E_INVALID_STATE whatever the amount (the function reads no sender), and
\* accumulated_reward, reward_per_stake and balance, like every other field
\* of every object, stay as they were.
C13_NoRewardBeforeActive ==
    \A p \in PoolIds, a \in 0..MaxAmount + 1 :
        pools[p].status \in {COLLECTING, READY} =>
            LET t == record_validator_reward_tx(p, a) IN
            /\ t.last.err = E_INVALID_STATE
            /\ t.pools[p].accumulated_reward = pools[p].accumulated_reward
            /\ t.pools[p].reward_per_stake = pools[p].reward_per_stake
            /\ t.pools[p].balance = pools[p].balance
            /\ t.pools = pools
            /\ t.contributors = contributors
            /\ t.events = <<>>

\* record_reward has just been refused while no pool is Active and one is Ready
C13_Witness ==
    /\ last.op = "record_reward"
    /\ last.err = E_INVALID_STATE
    /\ \A p \in PoolIds : pools[p].status # ACTIVE
    /\ \E p \in PoolIds : pools[p].status = READY /\ pools[p].balance > 0

\* C14: record_reward of r > 0 on an Active pool with total_stake T > 0
\* succeeds (the function reads no sender), adds r to balance and to
\* accumulated_reward and exactly floor(r * 1000000 / T) to reward_per_stake,
\* and changes no other field of the pool, no other pool, no Contributor
\* record and no capability.
C14_RecordReward ==
    \A p \in PoolIds, r \in 1..MaxAmount + 1 :
        (pools[p].status = ACTIVE /\ pools[p].total_stake > 0) =>
            LET t == record_validator_reward_tx(p, r)
                T == pools[p].total_stake
            IN  /\ t.last.err = OK
                /\ t.pools = [pools EXCEPT ![p] =
                        [@ EXCEPT !.balance = @ + r,
                                  !.accumulated_reward = @ + r,
                                  !.reward_per_stake = @ + ((r * PRECISION) \div T)]]
                /\ t.contributors = contributors
                /\ t.caps = caps

\* a reward has just been recorded on a pool whose total_stake does not
\* divide it, so that reward_per_stake was rounded down
C14_Witness ==
    /\ last.op = "record_reward"
    /\ last.err = OK
    /\ pools[last.pool].total_stake = 3
    /\ pools[last.pool].reward_per_stake % PRECISION # 0
    /\ pools[last.pool].accumulated_reward > 0

\* ----------------------------------------------- the rewards of one pool
\* The life of a single pool whose operator takes a share, with stakes and
\* rewards of the size used in the module's tests: the arguments given to
\* create_pool, stake, withdraw_stake and record_reward.
RewardRequired == {7, 1000}
RewardPcts == {0, 10, 100}
RewardStakes == {0, 7, 1000}
RewardWithdrawals == {0, 1000}
RewardAmounts == {0, 1, 100}

NextReward ==
    \/ /\ pools = <<>>
       /\ \E s \in Operators, q \in RewardRequired, pct \in RewardPcts :
             create_custom_validator_pool(s, q, pct)
    \/ \E s \in Addresses, p \in PoolIds, a \in RewardStakes : stake_to_pool(s, p, a)
    \/ \E s \in Addresses, p \in PoolIds, k \in CapIds : activate_validator_pool(s, p, k)
    \/ \E p \in PoolIds, a \in RewardAmounts : record_validator_reward(p, a)
    \/ \E s \in Addresses, p \in PoolIds, c \in ContributorIds : claim_user_reward(s, p, c)
    \/ \E s \in Addresses, p \in PoolIds, k \in CapIds : claim_operator_rewards(s, p, k)
    \/ \E s \in Addresses, p \in PoolIds, c \in ContributorIds, a \in RewardWithdrawals :
          withdraw_user_stake(s, p, c, a)
    \/ \E c \in ContributorIds : destroy_empty_contributor(c)

SpecReward == Init /\ [][NextReward]_vars

\* C15: when a pool has a single contributor, who staked S, and after its
\* activation exactly one record_reward(R) has been made, the contributor's
\* first claim_reward pays
\*   floor(floor(S * floor(R * 1000000 / S) / 1000000) * (100 - pct) / 100),
\* takes that amount out of the pool's balance and leaves reward_debt at
\* floor(S * reward_per_stake / 1000000).
C15_SingleContributorClaim ==
    \A c \in LiveContributors, R \in RewardAmounts \ {0} :
        LET p == contributors[c].pool_id
            S == contributors[c].staked_amount
        IN
        (/\ Len(contributors) = 1
         /\ pools[p].status = ACTIVE
         /\ rewards = 1
         /\ pools[p].reward_per_stake = (R * PRECISION) \div S
         /\ contributors[c].reward_debt = 0) =>
            LET t == claim_user_reward_tx(contributors[c].owner, p, c)
                pay == (((S * ((R * PRECISION) \div S)) \div PRECISION)
                            * (100 - pools[p].operator_reward_pct)) \div 100
            IN  /\ t.last.err = OK
                /\ t.last.payout = pay
                /\ t.pools[p].balance = pools[p].balance - pay
                /\ t.contributors[c].reward_debt =
                       (S * pools[p].reward_per_stake) \div PRECISION

\* the case of the module's test: 1000 staked, one reward of 100, 10% for the
\* operator; the only contributor has just been paid 90 and owes 100
C15_Witness ==
    /\ last.op = "claim_reward"
    /\ last.err = OK
    /\ last.payout = 90
    /\ Len(contributors) = 1
    /\ rewards = 1
    /\ contributors[1].staked_amount = 1000
    /\ contributors[1].reward_debt = 100
    /\ pools[1].operator_reward_pct = 10
    /\ pools[1].reward_per_stake = 100000

CrossRequired == {2}
CrossPcts == {50}
CrossStakes == {2, 8}
CrossWithdrawals == {8}
CrossAmounts == {2}

NextCross ==
    \/ \E s \in Operators, q \in CrossRequired, pct \in CrossPcts :
          create_custom_validator_pool(s, q, pct)
    \/ \E s \in Addresses, p \in PoolIds, a \in CrossStakes : stake_to_pool(s, p, a)
    \/ \E s \in Addresses, p \in PoolIds, k \in CapIds : activate_validator_pool(s, p, k)
    \/ \E p \in PoolIds, a \in CrossAmounts : record_validator_reward(p, a)
    \/ \E s \in Addresses, p \in PoolIds, c \in ContributorIds : claim_user_reward(s, p, c)
    \/ \E s \in Addresses, p \in PoolIds, k \in CapIds : claim_operator_rewards(s, p, k)
    \/ \E s \in Addresses, p \in PoolIds, c \in ContributorIds, a \in CrossWithdrawals :
          withdraw_user_stake(s, p, c, a)
    \/ \E c \in ContributorIds : destroy_empty_contributor(c)

SpecCross == Init /\ [][NextCross]_vars

\* C17: claim_operator_reward called on an Active pool by its operator takes
\* share = floor(accumulated_reward * operator_reward_pct / 100); when share
\* is positive it pays share, takes it out of balance and sets
\* accumulated_reward to 0; when share is 0 it pays 0 and leaves
\* accumulated_reward and balance as they were.
C17_OperatorShare ==
    \A p \in PoolIds, k \in CapIds :
        pools[p].status = ACTIVE =>
            LET t == claim_operator_rewards_tx(pools[p].operator, p, k)
                share == (pools[p].accumulated_reward * pools[p].operator_reward_pct) \div 100
            IN  /\ t.last.err = OK
                /\ t.last.payout = share
                /\ t.pools[p].balance = pools[p].balance - share
                /\ share > 0 => t.pools[p].accumulated_reward = 0
                /\ share = 0 => t.pools[p].accumulated_reward = pools[p].accumulated_reward

\* C18: claim_reward and claim_operator_reward abort with E_INVALID_STATE on
\* every pool that is not Active, and claim_reward on an Active pool aborts
\* with E_UNAUTHORIZED for every sender other than contributor.owner; such a
\* call pays nothing and leaves reward_debt, accumulated_reward and balance,
\* like every other field, as they were.
C18_ClaimGates ==
    \A s \in Addresses, p \in PoolIds :
        /\ \A c \in LiveContributors :
              LET t == claim_user_reward_tx(s, p, c) IN
              /\ pools[p].status # ACTIVE => t.last.err = E_INVALID_STATE
              /\ (pools[p].status = ACTIVE /\ s # contributors[c].owner)
                    => t.last.err = E_UNAUTHORIZED
              /\ (pools[p].status # ACTIVE \/ s # contributors[c].owner) =>
                    /\ t.last.payout = 0
                    /\ t.contributors[c].reward_debt = contributors[c].reward_debt
                    /\ t.pools[p].accumulated_reward = pools[p].accumulated_reward
                    /\ t.pools[p].balance = pools[p].balance
                    /\ t.pools = pools
                    /\ t.contributors = contributors
                    /\ t.events = <<>>
        /\ \A k \in CapIds :
              LET t == claim_operator_rewards_tx(s, p, k) IN
              pools[p].status # ACTIVE =>
                    /\ t.last.err = E_INVALID_STATE
                    /\ t.last.payout = 0
                    /\ t.pools = pools
                    /\ t.contributors = contributors
                    /\ t.events = <<>>

\* a claim_reward has just been refused as unauthorized on an Active pool
\* that owes the record a reward
C18_Witness ==
    /\ last.op = "claim_reward"
    /\ last.err = E_UNAUTHORIZED
    /\ \E p \in PoolIds, c \in LiveContributors :
          /\ pools[p].status = ACTIVE
          /\ contributors[c].pool_id = p
          /\ (contributors[c].staked_amount * pools[p].reward_per_stake) \div PRECISION
                > contributors[c].reward_debt

\* C19: stake aborts with E_INVALID_STATE on an Active pool and with
\* E_ZERO_AMOUNT on a Collecting or Ready pool when the coin's value is 0; in
\* both cases no Contributor record is created and total_stake, balance and
\* status, like everything else, stay as they were.  A stake that succeeds on
\* a Ready pool leaves it Ready.
C19_StakeGates ==
    \A s \in Addresses, p \in PoolIds, a \in 0..MaxAmount + 1 :
        LET t == stake_to_pool_tx(s, p, a) IN
        /\ pools[p].status = ACTIVE => t.last.err = E_INVALID_STATE
        /\ (pools[p].status \in {COLLECTING, READY} /\ a = 0)
              => t.last.err = E_ZERO_AMOUNT
        /\ (pools[p].status = ACTIVE \/ a = 0) =>
              /\ t.contributors = contributors
              /\ t.pools[p].total_stake = pools[p].total_stake
              /\ t.pools[p].balance = pools[p].balance
              /\ t.pools[p].status = pools[p].status
              /\ t.pools = pools
              /\ t.events = <<>>
        /\ (pools[p].status = READY /\ a > 0) =>
              /\ t.last.err = OK
              /\ t.pools[p].status = READY

\* a stake has just been added to a pool that had already met its threshold
C19_Witness ==
    /\ last.op = "stake"
    /\ last.err = OK
    /\ pools[last.pool].status = READY
    /\ pools[last.pool].total_stake - contributors[last.contributor].staked_amount
          >= pools[last.pool].required_stake

\* C20: on a Collecting or Ready pool withdraw_stake aborts with
\* E_UNAUTHORIZED when the sender is not contributor.owner, otherwise with
\* E_ZERO_AMOUNT when amount is 0, otherwise with E_INSUFFICIENT_STAKE when
\* amount exceeds contributor.staked_amount; in every other case it succeeds,
\* pays exactly amount and lowers contributor.staked_amount, pool.total_stake
\* and pool.balance by exactly amount each.
C20_WithdrawOutcome ==
    \A s \in Addresses, p \in PoolIds, c \in LiveContributors, a \in 0..MaxAmount + 1 :
        pools[p].status \in {COLLECTING, READY} =>
            LET t == withdraw_user_stake_tx(s, p, c, a) IN
            IF s # contributors[c].owner THEN t.last.err = E_UNAUTHORIZED
            ELSE IF a = 0 THEN t.last.err = E_ZERO_AMOUNT
            ELSE IF a > contributors[c].staked_amount THEN t.last.err = E_INSUFFICIENT_STAKE
            ELSE /\ t.last.err = OK
                 /\ t.last.payout = a
                 /\ t.contributors[c].staked_amount = contributors[c].staked_amount - a
                 /\ t.pools[p].total_stake = pools[p].total_stake - a
                 /\ t.pools[p].balance = pools[p].balance - a

\* C21: destroy_empty_contributor aborts with E_INSUFFICIENT_STAKE and leaves
\* the record alive whenever its staked_amount is not 0; whenever it is 0 the
\* call succeeds, the record ceases to exist and no pool field changes.
C21_DestroyOnlyEmpty ==
    \A c \in LiveContributors :
        LET t == destroy_empty_contributor_tx(c) IN
        /\ contributors[c].staked_amount # 0 =>
              /\ t.last.err = E_INSUFFICIENT_STAKE
              /\ t.contributors = contributors
              /\ t.contributors[c].live
        /\ contributors[c].staked_amount = 0 =>
              /\ t.last.err = OK
              /\ ~t.contributors[c].live
              /\ \A d \in ContributorIds \ {c} : t.contributors[d] = contributors[d]
        /\ t.pools = pools
        /\ t.caps = caps

\* an emptied record has just been destroyed while a pool still holds stake
C21_Witness ==
    /\ last.op = "destroy_empty_contributor"
    /\ last.err = OK
    /\ ~contributors[last.contributor].live
    /\ \E p \in PoolIds : pools[p].total_stake > 0

\* C22: reward_per_stake never decreases: across every step each pool's new
\* value is at least its old one, and the value changes only in a
\* record_reward on that pool that succeeds.
C22_RewardPerStakeMonotone ==
    [][\A p \in PoolIds :
          /\ pools'[p].reward_per_stake >= pools[p].reward_per_stake
          /\ pools'[p].reward_per_stake # pools[p].reward_per_stake =>
                /\ last'.op = "record_reward"
                /\ last'.err = OK
                /\ last'.pool = p]_vars

\* a second reward has just raised the reward_per_stake of a pool again
C22_Witness ==
    /\ last.op = "record_reward"
    /\ last.err = OK
    /\ rewards = 2
    /\ pools[last.pool].reward_per_stake > PRECISION

\* ---------------------------------------------------------- view functions
\* The value calculate_pending_reward returns, or the abort of its u64
\* subtraction; it takes both objects by immutable reference.
calculate_pending_reward(pool, contributor) ==
    IF pool.status # ACTIVE \/ contributor.staked_amount = 0 THEN
        [err |-> OK, value |-> 0]
    ELSE IF mul_overflows(contributor.staked_amount, pool.reward_per_stake) THEN
        [err |-> ARITHMETIC_ERROR, value |-> 0]
    ELSE
        LET accrued == (contributor.staked_amount * pool.reward_per_stake) \div PRECISION
        IN
        IF accrued < contributor.reward_debt THEN
            [err |-> ARITHMETIC_ERROR, value |-> 0]
        ELSE
            LET total_reward == accrued - contributor.reward_debt
                user_reward == (total_reward * (100 - pool.operator_reward_pct)) \div 100
            IN  [err |-> OK, value |-> user_reward]

\* C23: calculate_pending_reward(pool, contributor) returns 0 when the pool
\* is not Active or staked_amount is 0, and in every reachable state with
\* the pool Active it returns exactly the amount that a claim_reward made
\* next by the record's owner pays out.
C23_PendingIsNextClaim ==
    \A p \in PoolIds, c \in LiveContributors :
        LET q == calculate_pending_reward(pools[p], contributors[c])
            t == claim_user_reward_tx(contributors[c].owner, p, c)
        IN  /\ (pools[p].status # ACTIVE \/ contributors[c].staked_amount = 0) =>
                  (q.err = OK /\ q.value = 0)
            /\ pools[p].status = ACTIVE =>
                  (q.err = OK /\ q.value = t.last.payout)

\* ------------------------------------- two pools and a third record
\* Two pools without an operator share and one Contributor record more than
\* in Spec, so that two records of one pool meet a record of the other; all
\* stakes, withdrawals and rewards are of one size.
ThirdContributors == MaxContributors + 1
ThirdRequired == {2}
ThirdPcts == {0}
ThirdAmounts == {2}
\* one address sends every transaction: it operates the pools and owns the records
ThirdSenders == {"A"}

\* stake_to_pool with room for the third record
stake_to_pool_third(sender, p, stake_amount) ==
    /\ p \in PoolIds
    /\ LET t == stake_to_pool_tx(sender, p, stake_amount)
       IN  /\ t.last.err = OK => Len(contributors) < ThirdContributors
           /\ Apply(t)

NextThird ==
    \/ \E s \in Operators, q \in ThirdRequired, pct \in ThirdPcts :
          create_custom_validator_pool(s, q, pct)
    \/ \E s \in ThirdSenders, p \in PoolIds, a \in ThirdAmounts : stake_to_pool_third(s, p, a)
    \/ \E s \in ThirdSenders, p \in PoolIds, k \in CapIds : activate_validator_pool(s, p, k)
    \/ \E p \in PoolIds, a \in ThirdAmounts : record_validator_reward(p, a)
    \/ \E s \in ThirdSenders, p \in PoolIds, c \in ContributorIds : claim_user_reward(s, p, c)
    \/ \E s \in ThirdSenders, p \in PoolIds, k \in CapIds : claim_operator_rewards(s, p, k)
    \/ \E s \in ThirdSenders, p \in PoolIds, c \in ContributorIds, a \in ThirdAmounts :
          withdraw_user_stake(s, p, c, a)
    \/ \E c \in ContributorIds : destroy_empty_contributor(c)

SpecThird == Init /\ [][NextThird]_vars

\* C24: rewards are proportional to stake.  When a record of an Active pool
\* has just made its one claim_reward and another record of the same pool
\* claims next, for the same recorded rewards, the record with the larger
\* stake is paid at least as much as the other, and equal stakes are paid
\* equal amounts.
C24_ProportionalPayout ==
    (last.op = "claim_reward" /\ last.err = OK) =>
        LET p == last.pool
            c2 == last.contributor
            s2 == contributors[c2].staked_amount
        IN  \A c1 \in LiveContributors \ {c2} :
                LET s1 == contributors[c1].staked_amount
                    t == claim_user_reward_tx(contributors[c1].owner, p, c1)
                IN  (/\ contributors[c1].pool_id = p
                     /\ contributors[c2].pool_id = p
                     /\ contributors[c1].reward_debt = 0
                     /\ last.payout = (contributors[c2].reward_debt
                                          * (100 - pools[p].operator_reward_pct)) \div 100) =>
                        /\ s1 >= s2 => t.last.payout >= last.payout
                        /\ s1 <= s2 => t.last.payout <= last.payout

C26_WithdrawFrame ==
    [][/\ (last'.op = "withdraw_stake" /\ last'.err = OK) =>
             LET c == last'.contributor
                 p == last'.pool
             IN  /\ contributors'[c].reward_debt = contributors[c].reward_debt
                 /\ contributors'[c].owner = contributors[c].owner
                 /\ contributors'[c].pool_id = contributors[c].pool_id
                 /\ pools'[p].reward_per_stake = pools[p].reward_per_stake
                 /\ pools'[p].accumulated_reward = pools[p].accumulated_reward
                 /\ pools'[p].operator = pools[p].operator
                 /\ pools'[p].required_stake = pools[p].required_stake
                 /\ pools'[p].operator_reward_pct = pools[p].operator_reward_pct
       /\ \A c \in LiveContributors :
             (contributors'[c].live
                 /\ contributors'[c].reward_debt # contributors[c].reward_debt) =>
                /\ last'.op = "claim_reward"
                /\ last'.err = OK
                /\ last'.contributor = c
                /\ (contributors[c].staked_amount * pools[last'.pool].reward_per_stake)
                       \div PRECISION > contributors[c].reward_debt]_vars

\* a record that owes a reward_debt has just withdrawn part of its stake and
\* still owes the same
C26_Witness ==
    /\ last.op = "withdraw_stake"
    /\ last.err = OK
    /\ last.payout > 0
    /\ contributors[last.contributor].reward_debt > 0

\* C27: the Contributor record that a successful stake of amount a creates
\* has reward_debt = floor(reward_per_stake * a / 1000000), taken from the
\* pool's reward_per_stake at the moment of the stake, so that nothing is
\* pending for the depositor right after staking.
C27_StakeSetsDebt ==
    \A s \in Addresses, p \in PoolIds, a \in 1..MaxAmount + 1 :
        LET t == stake_to_pool_tx(s, p, a)
            c == Len(contributors) + 1
        IN  t.last.err = OK =>
              /\ Len(t.contributors) = c
              /\ t.contributors[c].staked_amount = a
              /\ t.contributors[c].owner = s
              /\ t.contributors[c].reward_debt =
                     (pools[p].reward_per_stake * a) \div PRECISION
              /\ (t.contributors[c].staked_amount * t.pools[p].reward_per_stake)
                     \div PRECISION = t.contributors[c].reward_debt
              /\ calculate_pending_reward(t.pools[p], t.contributors[c])
                     = [err |-> OK, value |-> 0]

\* a record has just been created by a stake while the other pool already
\* has a positive reward_per_stake
C27_Witness ==
    /\ last.op = "stake"
    /\ last.err = OK
    /\ contributors[last.contributor].reward_debt = 0
    /\ contributors[last.contributor].staked_amount > 0
    /\ \E p \in PoolIds : pools[p].reward_per_stake > 0

\* C30: the StakeDeposited event of a stake that succeeds carries
\* new_total_stake equal to the pool's total_stake after the deposit and
\* pool_status equal to the pool's status after the threshold test (Ready
\* when this stake crossed the threshold).  A claim_reward that succeeds
\* emits one RewardClaimed event when the gross amount it computed is
\* positive and none when it is 0, and a claim_operator_reward that succeeds
\* does the same for the operator's share.
C30_EventContents ==
    \A s \in Addresses, p \in PoolIds :
        /\ \A a \in RewardStakes :
              LET t == stake_to_pool_tx(s, p, a) IN
              t.last.err = OK =>
                 /\ Len(t.events) = 1
                 /\ t.events[1].type = "StakeDeposited"
                 /\ t.events[1].new_total_stake = t.pools[p].total_stake
                 /\ t.events[1].new_total_stake = pools[p].total_stake + a
                 /\ t.events[1].pool_status = t.pools[p].status
                 /\ (pools[p].status = COLLECTING
                        /\ pools[p].total_stake + a >= pools[p].required_stake)
                       => t.events[1].pool_status = READY
        /\ \A c \in LiveContributors :
              LET t == claim_user_reward_tx(s, p, c)
                  gross == ((contributors[c].staked_amount * pools[p].reward_per_stake)
                                \div PRECISION) - contributors[c].reward_debt
              IN  t.last.err = OK =>
                     /\ gross > 0 =>
                           t.events = << [type |-> "RewardClaimed", pool_id |-> p,
                                          claimer |-> contributors[c].owner,
                                          reward_amount |-> t.last.payout,
                                          is_operator |-> FALSE] >>
                     /\ gross = 0 => t.events = <<>>
        /\ \A k \in CapIds :
              LET t == claim_operator_rewards_tx(s, p, k)
                  share == (pools[p].accumulated_reward * pools[p].operator_reward_pct)
                               \div 100
              IN  t.last.err = OK =>
                     /\ share > 0 =>
                           t.events = << [type |-> "RewardClaimed", pool_id |-> p,
                                          claimer |-> pools[p].operator,
                                          reward_amount |-> share,
                                          is_operator |-> TRUE] >>
                     /\ share = 0 => t.events = <<>>

\* a claim_reward whose gross amount was positive but whose payout rounded
\* down to 0 has just emitted a RewardClaimed event for 0
C30_Witness ==
    /\ last.op = "claim_reward"
    /\ last.err = OK
    /\ last.payout = 0
    /\ Len(events) = 1
    /\ events[1].type = "RewardClaimed"
    /\ events[1].reward_amount = 0
    /\ contributors[last.contributor].reward_debt > 0

\* C31: in every reachable state a pool is Collecting exactly when its
\* total_stake is below its required_stake; so a Ready or Active pool has
\* total_stake >= required_stake > 0, and record_reward on an Active pool
\* never finds total_stake = 0.
C31_StatusTracksThreshold ==
    \A p \in PoolIds :
        /\ pools[p].required_stake > 0
        /\ pools[p].status \in {COLLECTING, READY, ACTIVE}
        /\ (pools[p].status = COLLECTING) <=>
               (pools[p].total_stake < pools[p].required_stake)
        /\ pools[p].status = ACTIVE =>
               \A a \in 1..MaxAmount :
                   LET r == record_reward(pools[p], p, a)
                   IN  r.err = OK /\ r.pool.reward_per_stake =
                           pools[p].reward_per_stake
                               + ((a * PRECISION) \div pools[p].total_stake)

\* a reward is recorded on an Active pool while another pool has fallen back
\* to Collecting through a withdrawal
C31_Witness ==
    /\ last.op = "record_reward"
    /\ last.err = OK
    /\ pools[last.pool].status = ACTIVE
    /\ \E q \in PoolIds :
          /\ pools[q].status = COLLECTING
          /\ pools[q].total_stake > 0

\* C32: reward payouts never consume staked principal.  Every write to a
\* pool's balance is matched by total_stake except the rewards recorded (added)
\* and the rewards paid (taken), so balance - total_stake is the sum recorded
\* less the sum paid: after every successful claim_reward or
\* claim_operator_reward the pool's balance is at least its total_stake.
C32_PayoutsWithinRewards ==
    (last.err = OK /\ last.op \in {"claim_reward", "claim_operator_reward"})
        => pools[last.pool].balance - pools[last.pool].total_stake >= 0

\* C33: while a pool is not Active its reward_per_stake and accumulated_reward
\* are 0 and every Contributor record of that pool has reward_debt 0; so no
\* withdraw_stake succeeds with a record whose reward_debt is not 0.
C33_NoDebtBeforeActive ==
    /\ \A p \in PoolIds :
          pools[p].status # ACTIVE =>
              /\ pools[p].reward_per_stake = 0
              /\ pools[p].accumulated_reward = 0
              /\ \A c \in LiveContributors :
                    contributors[c].pool_id = p => contributors[c].reward_debt = 0
    /\ \A s \in Addresses, p \in PoolIds, c \in LiveContributors, a \in 1..MaxAmount :
          withdraw_user_stake_tx(s, p, c, a).last.err = OK
              => contributors[c].reward_debt = 0

\* C34: in every reachable state, for every Contributor record taken with its
\* own pool, floor(staked_amount * reward_per_stake / 1000000) is at least
\* reward_debt: the subtraction that computes the gross pending reward in
\* claim_reward and in calculate_pending_reward does not underflow.
C34_NoPendingUnderflow ==
    \A c \in LiveContributors :
        LET p == contributors[c].pool_id IN
        /\ (contributors[c].staked_amount * pools[p].reward_per_stake) \div PRECISION
               >= contributors[c].reward_debt
        /\ claim_reward(pools[p], p, contributors[c], contributors[c].owner).err
               # ARITHMETIC_ERROR
        /\ calculate_pending_reward(pools[p], contributors[c]).err # ARITHMETIC_ERROR

\* C35: once a pool is Active, no step changes its total_stake or the
\* staked_amount of any Contributor record of that pool: no staked principal
\* goes back to a contributor after activation.
C35_StakeFrozenWhenActive ==
    [][\A p \in PoolIds :
           pools[p].status = ACTIVE =>
               /\ pools'[p].status = ACTIVE
               /\ pools'[p].total_stake = pools[p].total_stake
               /\ \A c \in LiveContributors :
                     contributors[c].pool_id = p =>
                         contributors'[c].staked_amount = contributors[c].staked_amount]_vars

\* ------------------------------------------------- rewards near the word's end
\* One pool, stakes of 2, and rewards whose product with PRECISION is near
\* MAX_WORD: 1100 * PRECISION fits in the word, 2148 * PRECISION does not.
WideRequired == {2}
WidePcts == {0, 10}
WideStakes == {0, 2}
WideWithdrawals == {0, 2}
WideAmounts == {0, 1100, 2148}

NextWide ==
    \/ /\ pools = <<>>
       /\ \E s \in Operators, q \in WideRequired, pct \in WidePcts :
             create_custom_validator_pool(s, q, pct)
    \/ \E s \in Addresses, p \in PoolIds, a \in WideStakes : stake_to_pool(s, p, a)
    \/ \E s \in Addresses, p \in PoolIds, k \in CapIds : activate_validator_pool(s, p, k)
    \/ \E p \in PoolIds, a \in WideAmounts : record_validator_reward(p, a)
    \/ \E s \in Addresses, p \in PoolIds, c \in ContributorIds : claim_user_reward(s, p, c)
    \/ \E s \in Addresses, p \in PoolIds, k \in CapIds : claim_operator_rewards(s, p, k)
    \/ \E s \in Addresses, p \in PoolIds, c \in ContributorIds, a \in WideWithdrawals :
          withdraw_user_stake(s, p, c, a)
    \/ \E c \in ContributorIds : destroy_empty_contributor(c)

SpecWide == Init /\ [][NextWide]_vars

\* C36: in every reachable state with an Active pool, claim_reward by the
\* owner of any record of that pool does not abort, and record_reward with any
\* amount above 0 does not abort: no product leaves the word and no payout
\* exceeds the balance.
C36_NoArithmeticAbort ==
    \A p \in PoolIds :
        pools[p].status = ACTIVE =>
            /\ \A c \in LiveContributors :
                  contributors[c].pool_id = p =>
                      claim_reward(pools[p], p, contributors[c],
                                   contributors[c].owner).err = OK
            /\ \A a \in WideAmounts \ {0} :
                  record_reward(pools[p], p, a).err = OK

\* C37: claims commute.  In an Active pool, two claim_reward calls by the
\* owners of two different records of the pool, or a claim_reward and a
\* claim_operator_reward, run back to back give the same two payouts and the
\* same final pool and records in either order.
C37_ClaimsCommute ==
    \A p \in PoolIds :
        pools[p].status = ACTIVE =>
            /\ \A c, d \in LiveContributors :
                  (c # d /\ contributors[c].pool_id = p /\ contributors[d].pool_id = p) =>
                      LET x  == contributors[c]
                          y  == contributors[d]
                          \* c first, then d
                          a1 == claim_reward(pools[p], p, x, x.owner)
                          q1 == Commit(a1.err, pools[p], a1.pool)
                          a2 == claim_reward(q1, p, y, y.owner)
                          \* d first, then c
                          b1 == claim_reward(pools[p], p, y, y.owner)
                          r1 == Commit(b1.err, pools[p], b1.pool)
                          b2 == claim_reward(r1, p, x, x.owner)
                      IN  /\ Commit(a1.err, 0, a1.payout) = Commit(b2.err, 0, b2.payout)
                          /\ Commit(a2.err, 0, a2.payout) = Commit(b1.err, 0, b1.payout)
                          /\ Commit(a1.err, x, a1.contributor)
                                = Commit(b2.err, x, b2.contributor)
                          /\ Commit(a2.err, y, a2.contributor)
                                = Commit(b1.err, y, b1.contributor)
                          /\ Commit(a2.err, q1, a2.pool) = Commit(b2.err, r1, b2.pool)
            /\ \A c \in LiveContributors, k \in CapIds :
                  (contributors[c].pool_id = p /\ caps[k].pool_id = p) =>
                      LET x  == contributors[c]
                          \* the contributor first, then the operator
                          a1 == claim_reward(pools[p], p, x, x.owner)
                          q1 == Commit(a1.err, pools[p], a1.pool)
                          a2 == claim_operator_reward(q1, p, caps[k], q1.operator)
                          \* the operator first, then the contributor
                          b1 == claim_operator_reward(pools[p], p, caps[k], pools[p].operator)
                          r1 == Commit(b1.err, pools[p], b1.pool)
                          b2 == claim_reward(r1, p, x, x.owner)
                      IN  /\ Commit(a1.err, 0, a1.payout) = Commit(b2.err, 0, b2.payout)
                          /\ Commit(a2.err, 0, a2.payout) = Commit(b1.err, 0, b1.payout)
                          /\ Commit(a1.err, x, a1.contributor)
                                = Commit(b2.err, x, b2.contributor)
                          /\ Commit(a2.err, q1, a2.pool) = Commit(b2.err, r1, b2.pool)

\* C38: claim timing cannot increase a contributor's income.  In every
\* reachable state the total that a Contributor record's claim_reward calls
\* have been paid from its pool is at most what a single claim_reward made
\* now by a record that had never claimed would pay:
\* floor(floor(staked_amount * reward_per_stake / 1000000)
\*       * (100 - operator_reward_pct) / 100).
C38_ClaimTimingNoGain ==
    \A c \in LiveContributors :
        LET p == contributors[c].pool_id
            accrued == (contributors[c].staked_amount * pools[p].reward_per_stake)
                           \div PRECISION
        IN  paid[c][p] <= (accrued * (100 - pools[p].operator_reward_pct)) \div 100

\* C39: a pool's required_stake, operator and operator_reward_pct and a
\* Contributor record's owner and pool_id are fixed at creation: in every
\* reachable state no call changes them, whoever sends the transaction;
\* create_pool records its sender as operator and stake records its sender
\* as owner; so only the address that staked can withdraw or claim with a
\* record, and only the creating address passes the operator check.
C39_IdentityFixed ==
    LET Fixed(t) ==
            /\ \A p \in PoolIds :
                  /\ t.pools[p].required_stake = pools[p].required_stake
                  /\ t.pools[p].operator = pools[p].operator
                  /\ t.pools[p].operator_reward_pct = pools[p].operator_reward_pct
            /\ \A k \in CapIds : t.caps[k] = caps[k]
            /\ \A c \in LiveContributors :
                  t.contributors[c].live =>
                      /\ t.contributors[c].owner = contributors[c].owner
                      /\ t.contributors[c].pool_id = contributors[c].pool_id
    IN  /\ \A s \in Addresses, q \in RequiredChoices, pct \in PctChoices :
              LET t == create_custom_validator_pool_tx(s, q, pct)
              IN  /\ Fixed(t)
                  /\ t.last.err = OK =>
                        /\ t.pools[t.last.pool].operator = s
                        /\ t.pools[t.last.pool].required_stake = q
                        /\ t.pools[t.last.pool].operator_reward_pct = pct
                        /\ t.caps[Len(t.caps)].pool_id = t.last.pool
        /\ \A s \in Addresses, p \in PoolIds :
              /\ \A a \in 0..MaxAmount :
                    LET t == stake_to_pool_tx(s, p, a)
                    IN  /\ Fixed(t)
                        /\ t.last.err = OK =>
                              /\ t.contributors[t.last.contributor].owner = s
                              /\ t.contributors[t.last.contributor].pool_id = p
              /\ \A a \in 0..MaxAmount : Fixed(record_validator_reward_tx(p, a))
              /\ \A k \in CapIds :
                    LET t == activate_validator_pool_tx(s, p, k)
                        u == claim_operator_rewards_tx(s, p, k)
                    IN  /\ Fixed(t) /\ (t.last.err = OK => s = pools[p].operator)
                        /\ Fixed(u) /\ (u.last.err = OK => s = pools[p].operator)
              /\ \A c \in LiveContributors :
                    /\ LET t == claim_user_reward_tx(s, p, c)
                       IN  Fixed(t) /\ (t.last.err = OK => s = contributors[c].owner)
                    /\ \A a \in 0..MaxAmount :
                          LET t == withdraw_user_stake_tx(s, p, c, a)
                          IN  Fixed(t) /\ (t.last.err = OK => s = contributors[c].owner)
        /\ \A c \in LiveContributors : Fixed(destroy_empty_contributor_tx(c))

\* a record staked by B has been used by B to claim a reward from a pool whose
\* operator is A, after A activated the pool
C39_Witness ==
    /\ last.op = "claim_reward"
    /\ last.err = OK
    /\ last.payout > 0
    /\ contributors[last.contributor].owner = "B"
    /\ contributors[last.contributor].pool_id = last.pool
    /\ pools[last.pool].operator = "A"
    /\ pools[last.pool].status = ACTIVE

\* ------------------------------------------- the hook's operations (part_003)
\* the contract's objects, which the hook's own state does not hold
ledger == <<pools, caps, contributors, last, events, rewards, paid>>

RECURSIVE SumCalls(_)
\* the number of calls in flight among the operations and phases of S
SumCalls(S) ==
    IF S = {} THEN 0
    ELSE LET k == CHOOSE x \in S : TRUE IN calls[k] + SumCalls(S \ {k})

\* The wallet connects an account or disconnects (useCurrentAccount).
setCurrentAccount(a) ==
    /\ currentAccount # a
    /\ currentAccount' = a
    /\ UNCHANGED <<state, calls, ledger>>

\* An operation is called: it sets its flag, isPending and a null error, builds
\* the transaction and hands it to signAndExecute.  Called without an account
\* it returns at once and leaves the state as it is.
startOperation(op) ==
    /\ currentAccount # "null"
    /\ SumCalls(DOMAIN calls) < MaxCalls
    /\ state' = updateState(state, (InProgressFlag(op) :> TRUE)
                                       @@ [isPending |-> TRUE, error |-> "null"])
    /\ calls' = [calls EXCEPT ![<<op, "signAndExecute">>] = @ + 1]
    /\ UNCHANGED <<currentAccount, ledger>>

\* An operation is called and building the transaction throws: the catch
\* block records the error after the update made at the start.
catchError(op) ==
    /\ currentAccount # "null"
    /\ SumCalls(DOMAIN calls) < MaxCalls
    /\ state' = updateState(
                    updateState(state, (InProgressFlag(op) :> TRUE)
                                           @@ [isPending |-> TRUE, error |-> "null"]),
                    (InProgressFlag(op) :> FALSE)
                        @@ [error |-> "err", isPending |-> FALSE,
                            isConfirming |-> FALSE])
    /\ UNCHANGED <<calls, currentAccount, ledger>>

\* signAndExecute succeeds: the digest is stored and the call waits for the
\* transaction.
onSuccess(op) ==
    /\ calls[<<op, "signAndExecute">>] > 0
    /\ state' = updateState(state, [hash |-> "digest", isConfirming |-> TRUE])
    /\ calls' = [calls EXCEPT ![<<op, "signAndExecute">>] = @ - 1,
                              ![<<op, "waitForTransaction">>] = @ + 1]
    /\ UNCHANGED <<currentAccount, ledger>>

\* signAndExecute fails (the signing error)
onError(op) ==
    /\ calls[<<op, "signAndExecute">>] > 0
    /\ state' = updateState(state, (InProgressFlag(op) :> FALSE)
                                       @@ [error |-> "signError", isPending |-> FALSE,
                                           isConfirming |-> FALSE])
    /\ calls' = [calls EXCEPT ![<<op, "signAndExecute">>] = @ - 1]
    /\ UNCHANGED <<currentAccount, ledger>>

\* waitForTransaction resolves: the operation is confirmed
waitForTransaction(op) ==
    /\ calls[<<op, "waitForTransaction">>] > 0
    /\ state' = updateState(state, (InProgressFlag(op) :> FALSE)
                                       @@ [isConfirmed |-> TRUE, isPending |-> FALSE,
                                           isConfirming |-> FALSE])
    /\ calls' = [calls EXCEPT ![<<op, "waitForTransaction">>] = @ - 1]
    /\ UNCHANGED <<currentAccount, ledger>>

\* waitForTransaction rejects (the confirmation error)
waitError(op) ==
    /\ calls[<<op, "waitForTransaction">>] > 0
    /\ state' = updateState(state, (InProgressFlag(op) :> FALSE)
                                       @@ [error |-> "waitError", isPending |-> FALSE,
                                           isConfirming |-> FALSE])
    /\ calls' = [calls EXCEPT ![<<op, "waitForTransaction">>] = @ - 1]
    /\ UNCHANGED <<currentAccount, ledger>>

clearError ==
    /\ state' = updateState(state, [error |-> "null"])
    /\ UNCHANGED <<calls, currentAccount, ledger>>

resetState ==
    /\ state' = InitialState
    /\ UNCHANGED <<calls, currentAccount, ledger>>

NextHook ==
    \/ \E a \in Addresses \cup {"null"} : setCurrentAccount(a)
    \/ \E op \in HookOperations : startOperation(op)
    \/ \E op \in HookOperations : catchError(op)
    \/ \E op \in HookOperations : onSuccess(op)
    \/ \E op \in HookOperations : onError(op)
    \/ \E op \in HookOperations : waitForTransaction(op)
    \/ \E op \in HookOperations : waitError(op)
    \/ clearError
    \/ resetState

SpecHook == Init /\ [][NextHook]_vars

\* C40: the hook state never has isConfirmed true together with a non-null
\* error or together with isPending true, and when every operation that was
\* started has finished, isPending and every in-progress flag are false.
C40_ConfirmedExcludesErrorAndPending ==
    /\ ~(state.isConfirmed /\ state.error # "null")
    /\ ~(state.isConfirmed /\ state.isPending)
    /\ SumCalls(DOMAIN calls) = 0 =>
          /\ ~state.isPending
          /\ ~state.isConfirming
          /\ \A op \in HookOperations : ~state[InProgressFlag(op)]
====
